---- MODULE Spec2Model ----
(***************************************************************************)
(* A model of APIClient (mt5_bridge_tester/mt5_bridge_client.py): the      *)
(* handshake and trust-on-first-use verification of connect(), the locked  *)
(* request/reply exchange of _send_request, the background listener and    *)
(* close().  Sockets are numbered in creation order; socket 0 and listener *)
(* 0 stand for None.                                                       *)
(***************************************************************************)
EXTENDS Integers, Sequences, FiniteSets, TLC

\* ------------------------------------------------------------------ bounds
MaxConnects == 2    \* calls of connect()
MaxCloses == 2      \* calls of close()
MaxResets == 1      \* times the operator deletes the trust record
MaxCalls == 2       \* API calls of the caller threads, all threads together
MaxEvents == 1      \* messages the server publishes
MaxMs == 2          \* clock readings, in milliseconds
MaxSuffixes == 2    \* values of the random suffix that are drawn

\* ------------------------------------------------------- program constants
PollTimeoutMs == 200    \* poller.poll(200) of the listener
JoinTimeoutMs == 1000   \* listener_thread.join(timeout=1)

Callers == {1, 2}    \* the threads that call the request API
Keys == {1, 2}       \* server public keys a handshake may carry; 0 is a missing or empty key
Ports == {1}         \* port numbers a handshake may carry; 0 is a missing field
Symbols == {1}       \* symbols of subscribe_symbols / unsubscribe_symbols
HEARTBEAT == 0
\* Line 271: random.randint(1000, 9999).
SuffixLow == 1000
SuffixHigh == 9999
Times == 1..MaxMs
Suffixes == {r \in SuffixLow..SuffixHigh : r < SuffixLow + MaxSuffixes}
Topics == {HEARTBEAT} \cup Symbols      \* topic s > 0 is "TICK.<s>"

\* Time advances in steps of one poll interval.
TickMs == PollTimeoutMs
PollTicks == PollTimeoutMs \div TickMs
JoinTicks == JoinTimeoutMs \div TickMs

VARIABLES
    trust_cache_file,   \* the trust record file: [kind, key, stamp]
    context,            \* "open", "terminating" (term() called), "terminated"
    socks,              \* every socket created on the context, in creation order
    req_socket, sub_socket, stop_event, listener_thread, req_lock,
    server_public_key, cmd_endpoint,
    mainPc,             \* position of the thread running connect() / close()
    connResult,         \* how the last connect() ended: "none", "ok", "raised"
    connError,          \* why it raised
    closeResult,        \* "none", "running", "returned"
    hsSock, response, trusted_key, pub_endpoint,    \* locals of connect()
    listeners,          \* the listener threads started so far: [pc, sock, timer]
    joinTimer,          \* time close() has spent in join()
    callers,            \* the threads calling the request API: one record each
    wire,               \* requests and replies in flight on the command channel
    lastOutcome,        \* how the latest exchange under req_lock ended, and on which socket
    connects, closes, resets, events, calls,        \* budget counters
    hsSent,             \* handshake requests sent by the running connect()
    preConn,            \* what connect() found when it began
    delivered,          \* topics of the messages the listeners have logged, in order
    peer,               \* a second client that uses the same trust record file
    hist,               \* the get_historical_data call of thread 1: position and locals
    history_cache       \* the files of history_cache_dir: file name -> content

clientVars == <<req_socket, sub_socket, stop_event, listener_thread, req_lock,
                server_public_key, cmd_endpoint>>
connLocals == <<hsSock, response, trusted_key, pub_endpoint>>
mainVars == <<mainPc, connResult, connError, closeResult, connLocals, connects, closes,
              hsSent, preConn>>
listenVars == <<listeners, joinTimer, events, delivered>>
callVars == <<callers, wire, lastOutcome, calls>>
histVars == <<hist, history_cache>>
vars == <<trust_cache_file, resets, peer, histVars, context, socks, clientVars, mainVars,
          listenVars, callVars>>

\* ------------------------------------------------------------ trust record
NoFile == [kind |-> "absent", key |-> 0, stamp |-> 0]
CorruptFile == [kind |-> "corrupt", key |-> 0, stamp |-> 0]
TrustRecord(k, t) == [kind |-> "record", key |-> k, stamp |-> t]

\* What lines 159-169 leave in trusted_key: the stored key when the file exists
\* and json.load succeeds, None (0) when it is absent or the read raises.
ReadTrustedKey(file, readOk) ==
    IF file.kind = "record" /\ readOk THEN file.key ELSE 0

\* Verification that accepts whatever key arrives once a record exists.
VerdictNoCompare(trusted, received) ==
    IF trusted # 0 THEN "accepted" ELSE "first_use"

\* Verification that re-pins a changed key instead of rejecting it.
VerdictAutoUpdate(trusted, received) ==
    IF trusted # 0 /\ received = trusted THEN "accepted" ELSE "first_use"

\* Verification that saves the key again when it equals the trusted one.
VerdictSaveAgain(trusted, received) ==
    IF trusted # 0 /\ received # trusted THEN "rejected" ELSE "first_use"

\* Verification that refuses every key it cannot compare with a trusted one.
VerdictFailClosed(trusted, received) ==
    IF trusted # 0 /\ received = trusted THEN "accepted" ELSE "rejected"

\* Lines 171-202: which branch verification takes.
Verdict(trusted, received) ==
    IF trusted # 0
    THEN IF received = trusted THEN "accepted" ELSE "rejected"
    ELSE "first_use"

\* A write that stores another key than the one it is given.
WriteTrustOtherKey(file, key, now, outcome) ==
    [kind |-> "record", key |-> CHOOSE k \in Keys : k # key, stamp |-> now]

\* json.dump of lines 205-211: "ok" writes the record, "openfail" leaves the
\* file as it was, "partial" leaves a truncated file.
WriteTrust(file, key, now, outcome) ==
    CASE outcome = "ok" -> TrustRecord(key, now)
      [] outcome = "openfail" -> file
      [] OTHER -> CorruptFile

WriteOutcomes == {"ok", "openfail", "partial"}

\* ----------------------------------------------------------------- sockets
NewSock(kind, key, ep) ==
    [kind |-> kind, open |-> TRUE, awaiting |-> FALSE, key |-> key,
     endpoint |-> ep, filter |-> [t \in Topics |-> 0], inbox |-> <<>>]

CloseSock(ss, s) == [ss EXCEPT ![s].open = FALSE]

\* A re-dial that resets the old socket and keeps using it.
ReuseReqSocket(ss, rs, key, ep) ==
    IF rs = 0
    THEN [socks |-> Append(ss, NewSock("req", key, ep)), req_socket |-> Len(ss) + 1]
    ELSE [socks |-> [ss EXCEPT ![rs].awaiting = FALSE], req_socket |-> rs]

\* A re-dial that opens the new socket without closing the old one.
ConnectReqSocketNoClose(ss, rs, key, ep) ==
    [socks |-> Append(ss, NewSock("req", key, ep)), req_socket |-> Len(ss) + 1]

\* A re-dial that does nothing when a socket is already there.
KeepReqSocket(ss, rs, key, ep) ==
    IF rs = 0
    THEN [socks |-> Append(ss, NewSock("req", key, ep)), req_socket |-> Len(ss) + 1]
    ELSE [socks |-> ss, req_socket |-> rs]

\* A re-dial that closes every socket of the client before it opens the new one.
RedialAfterCloseAll(ss, rs, key, ep) ==
    [socks |-> Append([s \in 1..Len(ss) |-> [ss[s] EXCEPT !.open = FALSE]],
                      NewSock("req", key, ep)),
     req_socket |-> Len(ss) + 1]

\* A re-dial that opens the new socket without the server key.
RedialWithoutKey(ss, rs, key, ep) ==
    [socks |-> Append(IF rs # 0 THEN CloseSock(ss, rs) ELSE ss,
                      NewSock("req", IF rs # 0 THEN 0 ELSE key, ep)),
     req_socket |-> Len(ss) + 1]

\* _connect_req_socket: close the old socket if there is one, open a new one
\* with the current server key and command endpoint.
ConnectReqSocket(ss, rs, key, ep) ==
    [socks |-> Append(IF rs # 0 THEN CloseSock(ss, rs) ELSE ss, NewSock("req", key, ep)),
     req_socket |-> Len(ss) + 1]

\* _connect_sub_socket: a new SUB socket; the previous one is not closed.
ConnectSubSocket(ss, key, ep) ==
    [socks |-> Append(ss, NewSock("sub", key, ep)), sub_socket |-> Len(ss) + 1]

\* ------------------------------------------------------------- handshake
Failure(s) == [status |-> s, key |-> 0, cmd |-> 0, pub |-> 0]
HandshakeReplies ==
    {Failure("timeout"), Failure("undecodable"), Failure("error")}
    \cup [status : {"success"}, key : Keys \cup {0}, cmd : Ports \cup {0},
              pub : Ports \cup {0}]

NoResponse == Failure("none")

\* Line 246, the loop condition: where the thread goes from the head of its loop.
LoopHead(stop) == IF stop THEN "stopped" ELSE "poll"

Running(l) == l.pc \in {"poll", "recv"}
Alive(lt) == lt # 0 /\ Running(listeners[lt])

\* ------------------------------------------------------------ call results
\* The request dictionary of get_historical_data (lines 357-373); a key that
\* is not set is -1.  The bars a reply carries are named by the request they
\* answer, and NoRequest stands for no data.
NoRequest ==
    [symbol |-> "", timeframe |-> "", start_time |-> -1, end_time |-> -1,
     start_pos |-> -1, count |-> -1]

NoResult ==
    [kind |-> "none", status |-> "none", code |-> 0, for |-> 0, duration |-> FALSE,
     data |-> NoRequest]
ErrorResult(code) ==
    [kind |-> "error", status |-> "error", code |-> code, for |-> 0, duration |-> FALSE,
     data |-> NoRequest]
\* Lines 289-292: the server's reply with end_to_end_duration_ms added.
ReplyResult(rep) ==
    [kind |-> "reply", status |-> rep.body, code |-> 0, for |-> rep.id, duration |-> TRUE,
     data |-> rep.data]

NoOutcome == [kind |-> "none", sock |-> 0]
IdleCaller ==
    [pc |-> "idle", op |-> "none", id |-> 0, python_id |-> 0, sock |-> 0, sent |-> 0,
     result |-> NoResult, prev |-> NoOutcome, early |-> FALSE]

\* The second client before its connect(): where it is, the key its handshake
\* reply carries, its trusted_key and server_public_key, and whether it read
\* the record while the first client was between its read and its decision.
IdlePeer ==
    [pc |-> "idle", received |-> 0, trusted_key |-> 0, server_public_key |-> 0,
     overlap |-> FALSE]

\* ------------------------------------------------------ get_historical_data
\* A time argument: None, a datetime object or a "%Y-%m-%d %H:%M:%S" string;
\* ts is the epoch second of the moment it names.
None == [kind |-> "none", ts |-> 0]
Datetime(t) == [kind |-> "datetime", ts |-> t]
TimeString(t) == [kind |-> "str", ts |-> t]
StartArgs == {None, Datetime(1), TimeString(1), TimeString(2)}
EndArgs == {None, Datetime(2)}
HistSymbols == {"EURUSD", "GBPUSD"}
HistTimeframes == {"M1"}
HistCounts == {0, 5}
\* Line 373: the number of bars asked for when count is not positive.
DefaultCount == 100

HistArgs ==
    [symbol : HistSymbols, timeframe : HistTimeframes, start_time : StartArgs,
     end_time : EndArgs, count : HistCounts]
NoArgs ==
    [symbol |-> "", timeframe |-> "", start_time |-> None, end_time |-> None, count |-> 0]

\* Lines 338-341: the timestamp that goes into the file name, 0 unless the
\* argument is a datetime object.
FileTs(t) == IF t.kind = "datetime" THEN t.ts ELSE 0

\* Line 342: f"{symbol}_{timeframe}_{start_ts}_{end_ts}_{count}.parquet".
cache_filename(a) ==
    a.symbol \o "_" \o a.timeframe \o "_" \o ToString(FileTs(a.start_time)) \o "_"
        \o ToString(FileTs(a.end_time)) \o "_" \o ToString(a.count) \o ".parquet"

\* Lines 357-373: the get_bars request; a string is parsed by strptime, both
\* forms give int(timestamp()).
BuildRequest(a) ==
    IF a.start_time.kind # "none"
    THEN [symbol |-> a.symbol, timeframe |-> a.timeframe,
          start_time |-> a.start_time.ts,
          end_time |-> IF a.end_time.kind # "none" THEN a.end_time.ts ELSE 0,
          start_pos |-> -1, count |-> -1]
    ELSE [symbol |-> a.symbol, timeframe |-> a.timeframe, start_time |-> -1,
          end_time |-> -1, start_pos |-> 0,
          count |-> IF a.count > 0 THEN a.count ELSE DefaultCount]

\* A cache file: a table (named by the request whose bars it holds) or a file
\* that pd.read_parquet cannot read.
TableFile(data) == [kind |-> "table", data |-> data]
BrokenFile == [kind |-> "broken", data |-> NoRequest]
NoFiles == <<>>

\* No get_historical_data call is running.
IdleHist ==
    [pc |-> "idle", args |-> NoArgs, cache_path |-> "", request |-> NoRequest,
     ticket |-> 0, hit |-> FALSE, table |-> NoRequest, before |-> NoFiles]

\* Lines 329-373 in thread 1: the file name, the cache check (a file that
\* exists and can be read is returned at once) and, on a miss, the request
\* that _send_request is then called with.
HistoryStart(a) ==
    /\ hist.pc \in {"idle", "returned", "raised"}
    /\ callers[1].pc \in {"idle", "done", "raised"}
    /\ LET path == cache_filename(a)
       IN \E readOk \in BOOLEAN :
            IF path \in DOMAIN history_cache /\ history_cache[path].kind = "table" /\ readOk
            THEN hist' = [IdleHist EXCEPT !.pc = "returned", !.args = a,
                                          !.cache_path = path, !.hit = TRUE,
                                          !.table = history_cache[path].data,
                                          !.before = history_cache]
            ELSE hist' = [IdleHist EXCEPT !.pc = "request", !.args = a,
                                          !.cache_path = path,
                                          !.request = BuildRequest(a),
                                          !.ticket = calls + 1,
                                          !.before = history_cache]
    /\ UNCHANGED <<trust_cache_file, resets, peer, history_cache, context, socks,
                   clientVars, mainVars, listenVars, callVars>>

\* Line 375 has been reached: the _send_request of this call has ended.
HistoryAnswered ==
    /\ hist.pc = "request"
    /\ callers[1].op = "history" /\ callers[1].id = hist.ticket
    /\ callers[1].pc \in {"done", "raised"}

\* The bars of the response: line 378, a success status and data that is
\* not empty.
HasBars(result) == result.status = "success" /\ result.data # NoRequest

\* Processing that caches whatever a success response carries.
HistoryFinishCachesEmpty ==
    /\ HistoryAnswered
    /\ IF callers[1].pc = "raised"
       THEN /\ hist' = [hist EXCEPT !.pc = "raised"]
            /\ UNCHANGED history_cache
       ELSE IF callers[1].result.status = "success"
       THEN /\ hist' = [hist EXCEPT !.pc = "returned", !.table = callers[1].result.data]
            /\ \E outcome \in WriteOutcomes :
                 history_cache' =
                     CASE outcome = "ok" ->
                            (hist.cache_path :> TableFile(callers[1].result.data))
                                @@ history_cache
                       [] outcome = "openfail" -> history_cache
                       [] OTHER -> (hist.cache_path :> BrokenFile) @@ history_cache
       ELSE /\ hist' = [hist EXCEPT !.pc = "returned", !.table = NoRequest]
            /\ UNCHANGED history_cache
    /\ UNCHANGED <<trust_cache_file, resets, peer, context, socks, clientVars, mainVars,
                   listenVars, callVars>>

\* Lines 375-394 in thread 1: an exception of _send_request passes through; a
\* success response with bars becomes the table and is written to the cache
\* file, a failed write being logged only; anything else gives an empty table.
HistoryFinish ==
    /\ HistoryAnswered
    /\ IF callers[1].pc = "raised"
       THEN /\ hist' = [hist EXCEPT !.pc = "raised"]
            /\ UNCHANGED history_cache
       ELSE IF HasBars(callers[1].result)
       THEN /\ hist' = [hist EXCEPT !.pc = "returned", !.table = callers[1].result.data]
            /\ \E outcome \in WriteOutcomes :
                 history_cache' =
                     CASE outcome = "ok" ->
                            (hist.cache_path :> TableFile(callers[1].result.data))
                                @@ history_cache
                       [] outcome = "openfail" -> history_cache
                       [] OTHER -> (hist.cache_path :> BrokenFile) @@ history_cache
       ELSE /\ hist' = [hist EXCEPT !.pc = "returned", !.table = NoRequest]
            /\ UNCHANGED history_cache
    /\ UNCHANGED <<trust_cache_file, resets, peer, context, socks, clientVars, mainVars,
                   listenVars, callVars>>


Init ==
    /\ trust_cache_file \in {NoFile, CorruptFile} \cup {TrustRecord(k, 0) : k \in Keys \cup {0}}
    /\ context = "open"
    /\ socks = <<>>
    /\ req_socket = 0 /\ sub_socket = 0 /\ stop_event = FALSE
    /\ listener_thread = 0 /\ req_lock = 0
    /\ server_public_key = 0 /\ cmd_endpoint = 0
    /\ mainPc = "idle" /\ connResult = "none" /\ connError = "none" /\ closeResult = "none"
    /\ hsSock = 0 /\ response = NoResponse /\ trusted_key = 0 /\ pub_endpoint = 0
    /\ listeners = <<>>
    /\ joinTimer = 0
    /\ callers = [c \in Callers |-> IdleCaller]
    /\ wire = {}
    /\ lastOutcome = NoOutcome
    /\ connects = 0 /\ closes = 0 /\ resets = 0 /\ events = 0 /\ calls = 0
    /\ hsSent = 0
    /\ preConn = [req |-> 0, sub |-> 0, lt |-> 0, nsocks |-> 0, nlisteners |-> 0,
                  file |-> NoFile]
    /\ delivered = <<>>
    /\ peer = IdlePeer
    /\ hist = IdleHist
    /\ history_cache = NoFiles

\* ---------------------------------------------------------------- connect()
\* connect() ends: control returns to its caller and its locals are gone.
Return(result, error) ==
    /\ mainPc' = "idle" /\ connResult' = result /\ connError' = error
    /\ hsSock' = 0 /\ response' = NoResponse /\ trusted_key' = 0 /\ pub_endpoint' = 0

\* Lines 84-99: open the handshake socket and send the one handshake request.
\* On a terminated context self.context.socket raises.
ConnectStart ==
    /\ mainPc = "idle" /\ connects < MaxConnects
    /\ connects' = connects + 1
    /\ preConn' = [req |-> req_socket, sub |-> sub_socket, lt |-> listener_thread,
                   nsocks |-> Len(socks), nlisteners |-> Len(listeners),
                   file |-> trust_cache_file]
    /\ IF context # "open"
       THEN /\ Return("raised", "context")
            /\ UNCHANGED socks
            /\ hsSent' = 0
       ELSE /\ socks' = Append(socks, NewSock("hs", 0, 0))
            /\ hsSock' = Len(socks) + 1
            /\ hsSent' = 1
            /\ mainPc' = "handshake" /\ connResult' = "none" /\ connError' = "none"
            /\ UNCHANGED <<response, trusted_key, pub_endpoint>>
    /\ UNCHANGED <<trust_cache_file, resets, histVars, peer, context, clientVars, closeResult, closes,
                   listenVars, callVars>>

\* A handshake that sends its request once more when the first poll times out.
ConnectHandshakeRetry ==
    /\ mainPc = "handshake"
    /\ \E reply \in HandshakeReplies :
        /\ socks' = IF reply.status = "timeout" THEN socks ELSE CloseSock(socks, hsSock)
        /\ IF reply.status = "success"
           THEN /\ mainPc' = "verify_read" /\ response' = reply
                /\ UNCHANGED <<connResult, connError, hsSock, trusted_key, pub_endpoint,
                               hsSent>>
           ELSE IF reply.status = "timeout" /\ hsSent = 1
           THEN /\ hsSent' = 2
                /\ UNCHANGED <<mainPc, connResult, connError, connLocals>>
           ELSE /\ Return("raised", reply.status)
                /\ UNCHANGED hsSent
    /\ UNCHANGED <<trust_cache_file, resets, histVars, peer, context, clientVars, closeResult, connects,
                   closes, preConn, listenVars, callVars>>

\* Lines 101-118: poll for the reply.  A timeout raises before the try block,
\* so the handshake socket stays open; otherwise the finally clause closes it.
ConnectHandshake ==
    /\ mainPc = "handshake"
    /\ \E reply \in HandshakeReplies :
        /\ socks' = IF reply.status = "timeout" THEN socks ELSE CloseSock(socks, hsSock)
        /\ IF reply.status = "success"
           THEN /\ mainPc' = "verify_read" /\ response' = reply
                /\ UNCHANGED <<connResult, connError, hsSock, trusted_key, pub_endpoint>>
           ELSE Return("raised", reply.status)
    /\ UNCHANGED <<trust_cache_file, resets, histVars, peer, context, clientVars, closeResult, connects,
                   closes, hsSent, preConn, listenVars, callVars>>

\* Lines 153-169 of _verify_server_identity: a missing or empty received key
\* raises; otherwise the trust record is read, a failed read leaving None.
VerifyRead ==
    /\ mainPc = "verify_read"
    /\ IF response.key = 0
       THEN Return("raised", "nokey")
       ELSE /\ \E readOk \in BOOLEAN :
                trusted_key' = ReadTrustedKey(trust_cache_file, readOk)
            /\ mainPc' = "verify_decide"
            /\ UNCHANGED <<connResult, connError, hsSock, response, pub_endpoint>>
    /\ UNCHANGED <<trust_cache_file, resets, histVars, peer, context, socks, clientVars, closeResult,
                   connects, closes, hsSent, preConn, listenVars, callVars>>

\* Verification in which a failed write of the record raises to the caller.
VerifyDecideWriteRaises ==
    /\ mainPc = "verify_decide"
    /\ LET v == Verdict(trusted_key, response.key)
       IN IF v = "rejected"
          THEN /\ Return("raised", "mismatch")
               /\ UNCHANGED <<server_public_key, trust_cache_file>>
          ELSE /\ server_public_key' = response.key
               /\ IF v = "first_use"
                  THEN \E outcome \in WriteOutcomes :
                         /\ trust_cache_file' =
                              WriteTrust(trust_cache_file, response.key, connects, outcome)
                         /\ IF outcome = "ok"
                            THEN /\ mainPc' = "open_req"
                                 /\ UNCHANGED <<connResult, connError, connLocals>>
                            ELSE Return("raised", "write")
                  ELSE /\ mainPc' = "open_req"
                       /\ UNCHANGED <<trust_cache_file, connResult, connError, connLocals>>
    /\ UNCHANGED <<resets, histVars, peer, context, socks, req_socket, sub_socket, stop_event,
                   listener_thread, req_lock, cmd_endpoint, closeResult, connects,
                   closes, hsSent, preConn, listenVars, callVars>>

\* Verification that stores the received key as the session key before it
\* compares it.
VerifyDecideKeyFirst ==
    /\ mainPc = "verify_decide"
    /\ server_public_key' = response.key
    /\ LET v == Verdict(trusted_key, response.key)
       IN IF v = "rejected"
          THEN /\ Return("raised", "mismatch")
               /\ UNCHANGED trust_cache_file
          ELSE /\ IF v = "first_use"
                  THEN \E outcome \in WriteOutcomes :
                         trust_cache_file' =
                             WriteTrust(trust_cache_file, response.key, connects, outcome)
                  ELSE UNCHANGED trust_cache_file
               /\ mainPc' = "open_req"
               /\ UNCHANGED <<connResult, connError, connLocals>>
    /\ UNCHANGED <<resets, histVars, peer, context, socks, req_socket, sub_socket, stop_event,
                   listener_thread, req_lock, cmd_endpoint, closeResult, connects,
                   closes, hsSent, preConn, listenVars, callVars>>

\* Lines 171-218: compare with the trusted key, or trust and save on first use.
VerifyDecide ==
    /\ mainPc = "verify_decide"
    /\ LET v == Verdict(trusted_key, response.key)
       IN IF v = "rejected"
          THEN /\ Return("raised", "mismatch")
               /\ UNCHANGED <<server_public_key, trust_cache_file>>
          ELSE /\ server_public_key' = response.key
               /\ IF v = "first_use"
                  THEN \E outcome \in WriteOutcomes :
                         trust_cache_file' =
                             WriteTrust(trust_cache_file, response.key, connects, outcome)
                  ELSE UNCHANGED trust_cache_file
               /\ mainPc' = "open_req"
               /\ UNCHANGED <<connResult, connError, connLocals>>
    /\ UNCHANGED <<resets, histVars, peer, context, socks, req_socket, sub_socket, stop_event,
                   listener_thread, req_lock, cmd_endpoint, closeResult, connects,
                   closes, hsSent, preConn, listenVars, callVars>>

\* connect() that dials the command socket before it reads the publish port.
ConnectOpenReqEarly ==
    /\ mainPc = "open_req"
    /\ IF response.cmd = 0
       THEN /\ Return("raised", "ports")
            /\ UNCHANGED <<socks, req_socket, cmd_endpoint>>
       ELSE LET r == ConnectReqSocket(socks, req_socket, server_public_key, response.cmd)
            IN /\ cmd_endpoint' = response.cmd
               /\ socks' = r.socks
               /\ req_socket' = r.req_socket
               /\ IF response.pub = 0
                  THEN Return("raised", "ports")
                  ELSE /\ pub_endpoint' = response.pub
                       /\ mainPc' = "open_sub"
                       /\ UNCHANGED <<connResult, connError, hsSock, response, trusted_key>>
    /\ UNCHANGED <<trust_cache_file, resets, histVars, peer, context, sub_socket, stop_event,
                   listener_thread, req_lock, server_public_key, closeResult, connects,
                   closes, hsSent, preConn, listenVars, callVars>>

\* Lines 129-134: a missing port field raises KeyError before cmd_endpoint is
\* assigned; otherwise the command socket is (re)connected.
ConnectOpenReq ==
    /\ mainPc = "open_req"
    /\ IF response.cmd = 0 \/ response.pub = 0
       THEN /\ Return("raised", "ports")
            /\ UNCHANGED <<socks, req_socket, cmd_endpoint>>
       ELSE LET r == ConnectReqSocket(socks, req_socket, server_public_key, response.cmd)
            IN /\ cmd_endpoint' = response.cmd
               /\ pub_endpoint' = response.pub
               /\ socks' = r.socks
               /\ req_socket' = r.req_socket
               /\ mainPc' = "open_sub"
               /\ UNCHANGED <<connResult, connError, hsSock, response, trusted_key>>
    /\ UNCHANGED <<trust_cache_file, resets, histVars, peer, context, sub_socket, stop_event,
                   listener_thread, req_lock, server_public_key, closeResult, connects,
                   closes, hsSent, preConn, listenVars, callVars>>

\* Line 135.
ConnectOpenSub ==
    /\ mainPc = "open_sub"
    /\ LET r == ConnectSubSocket(socks, server_public_key, pub_endpoint)
       IN socks' = r.socks /\ sub_socket' = r.sub_socket
    /\ mainPc' = "start_listener"
    /\ UNCHANGED <<trust_cache_file, resets, histVars, peer, context, req_socket, stop_event,
                   listener_thread, req_lock, server_public_key, cmd_endpoint,
                   connResult, connError, closeResult, connLocals, connects, closes,
                   hsSent, preConn, listenVars, callVars>>

\* Lines 137-142: start the listener thread; it registers self.sub_socket with
\* its poller (lines 243-245) and reaches the head of its loop.
ConnectStartListener ==
    /\ mainPc = "start_listener"
    /\ listeners' = Append(listeners, [pc |-> LoopHead(stop_event), sock |-> sub_socket,
                                       timer |-> 0])
    /\ listener_thread' = Len(listeners) + 1
    /\ Return("ok", "none")
    /\ UNCHANGED <<trust_cache_file, resets, histVars, peer, context, socks, req_socket, sub_socket,
                   stop_event, req_lock, server_public_key, cmd_endpoint, closeResult,
                   connects, closes, hsSent, preConn, joinTimer, events, delivered,
                   callVars>>

\* ------------------------------------------------------ the trust operator
\* The operator deletes the trust record file (the remediation of line 191).
OperatorDeleteTrust ==
    /\ resets < MaxResets
    /\ trust_cache_file # NoFile
    /\ trust_cache_file' = NoFile
    /\ resets' = resets + 1
    /\ UNCHANGED <<peer, histVars, context, socks, clientVars, mainVars, listenVars,
                   callVars>>

\* ------------------------------------------------- a second client instance
\* Another APIClient, with a context and sockets of its own, that is configured
\* with the same trust record file.  Its connect() receives a complete
\* success reply carrying some key (lines 84-122).
PeerHandshake ==
    /\ peer.pc = "idle"
    /\ \E k \in Keys : peer' = [peer EXCEPT !.pc = "verify_read", !.received = k]
    /\ UNCHANGED <<trust_cache_file, resets, histVars, context, socks, clientVars, mainVars,
                   listenVars, callVars>>

\* Lines 159-169 in the second client: it reads the record; the first client
\* may be between its own read and its decision at that moment.
PeerVerifyRead ==
    /\ peer.pc = "verify_read"
    /\ \E readOk \in BOOLEAN :
          peer' = [peer EXCEPT !.pc = "verify_decide",
                               !.trusted_key = ReadTrustedKey(trust_cache_file, readOk),
                               !.overlap = (mainPc = "verify_decide" /\ trusted_key = 0)]
    /\ UNCHANGED <<trust_cache_file, resets, histVars, context, socks, clientVars, mainVars,
                   listenVars, callVars>>

\* Lines 171-218 in the second client, and the rest of its connect() (lines
\* 129-141), which succeeds once the key is accepted.
PeerVerifyDecide ==
    /\ peer.pc = "verify_decide"
    /\ LET v == Verdict(peer.trusted_key, peer.received)
       IN IF v = "rejected"
          THEN /\ peer' = [peer EXCEPT !.pc = "raised"]
               /\ UNCHANGED trust_cache_file
          ELSE /\ peer' = [peer EXCEPT !.pc = "ok", !.server_public_key = peer.received]
               /\ IF v = "first_use"
                  THEN \E outcome \in WriteOutcomes :
                         trust_cache_file' =
                             WriteTrust(trust_cache_file, peer.received, connects, outcome)
                  ELSE UNCHANGED trust_cache_file
    /\ UNCHANGED <<resets, histVars, context, socks, clientVars, mainVars, listenVars, callVars>>

\* ------------------------------------------------------------------ close()
\* Lines 258-260.  A poll in progress has at most a whole interval left.
CloseStart ==
    /\ mainPc = "idle" /\ closes < MaxCloses
    /\ closes' = closes + 1
    /\ stop_event' = TRUE
    /\ joinTimer' = 0
    /\ listeners' = [l \in 1..Len(listeners) |-> [listeners[l] EXCEPT !.timer = 0]]
    /\ mainPc' = "close_join" /\ closeResult' = "running"
    /\ UNCHANGED <<trust_cache_file, resets, histVars, peer, context, socks, req_socket, sub_socket,
                   listener_thread, req_lock, server_public_key, cmd_endpoint,
                   connResult, connError, connLocals, connects, hsSent, preConn,
                   events, delivered, callVars>>

\* join(timeout=1) has returned: the thread has exited or the timeout has run out.
JoinReturns(alive, waited) == ~alive \/ waited >= JoinTicks

\* Lines 261-262: join the listener named by listener_thread, if it is alive.
CloseJoin ==
    /\ mainPc = "close_join"
    /\ JoinReturns(Alive(listener_thread), joinTimer)
    /\ mainPc' = "close_req"
    /\ UNCHANGED <<trust_cache_file, resets, histVars, peer, context, socks, clientVars, connResult,
                   connError, closeResult, connLocals, connects, closes, hsSent,
                   preConn, listenVars, callVars>>

\* Lines 263-264.
CloseReq ==
    /\ mainPc = "close_req"
    /\ socks' = IF req_socket # 0 THEN CloseSock(socks, req_socket) ELSE socks
    /\ mainPc' = "close_sub"
    /\ UNCHANGED <<trust_cache_file, resets, histVars, peer, context, clientVars, connResult,
                   connError, closeResult, connLocals, connects, closes, hsSent,
                   preConn, listenVars, callVars>>

\* Lines 265-266.
CloseSub ==
    /\ mainPc = "close_sub"
    /\ socks' = IF sub_socket # 0 THEN CloseSock(socks, sub_socket) ELSE socks
    /\ mainPc' = "close_term"
    /\ UNCHANGED <<trust_cache_file, resets, histVars, peer, context, clientVars, connResult,
                   connError, closeResult, connLocals, connects, closes, hsSent,
                   preConn, listenVars, callVars>>

\* A term() that starts a termination again on a context already terminated.
CloseTermAgain ==
    /\ mainPc = "close_term"
    /\ context' = "terminating"
    /\ mainPc' = "close_wait"
    /\ UNCHANGED <<trust_cache_file, resets, histVars, peer, socks, clientVars, connResult, connError,
                   closeResult, connLocals, connects, closes, hsSent, preConn,
                   listenVars, callVars>>

\* Line 267, context.term() is entered: blocking calls on the context's sockets
\* now fail with ContextTerminated.
CloseTerm ==
    /\ mainPc = "close_term"
    /\ context' = IF context = "open" THEN "terminating" ELSE context
    /\ mainPc' = "close_wait"
    /\ UNCHANGED <<trust_cache_file, resets, histVars, peer, socks, clientVars, connResult, connError,
                   closeResult, connLocals, connects, closes, hsSent, preConn,
                   listenVars, callVars>>

\* Lines 267-268: term() returns once every socket of the context is closed.
CloseReturn ==
    /\ mainPc = "close_wait"
    /\ \A s \in 1..Len(socks) : ~socks[s].open
    /\ context' = "terminated"
    /\ mainPc' = "idle" /\ closeResult' = "returned"
    /\ UNCHANGED <<trust_cache_file, resets, histVars, peer, socks, clientVars, connResult, connError,
                   connLocals, connects, closes, hsSent, preConn, listenVars, callVars>>

\* ------------------------------------------------------ _listen_for_updates
\* poll(200) may return false: outside close() the model leaves its length
\* open, while close() waits in join() the interval is measured.
PollExpired(l) == mainPc # "close_join" \/ l.timer >= PollTicks

\* Line 248, poller.poll(200) on the socket registered at line 244: a closed
\* socket raises ZMQError (not caught: the thread dies), a terminated context
\* raises ContextTerminated (line 254), a waiting message makes it return true,
\* and after 200 ms it returns false and the loop condition is tested again.
ListenerPoll(l) ==
    /\ l <= Len(listeners) /\ listeners[l].pc = "poll"
    /\ LET s == listeners[l].sock
       IN \/ /\ ~socks[s].open
             /\ listeners' = [listeners EXCEPT ![l].pc = "dead"]
          \/ /\ socks[s].open /\ context # "open"
             /\ listeners' = [listeners EXCEPT ![l].pc = "stopped"]
          \/ /\ socks[s].open /\ context = "open" /\ socks[s].inbox # <<>>
             /\ listeners' = [listeners EXCEPT ![l].pc = "recv"]
          \/ /\ socks[s].open /\ context = "open" /\ socks[s].inbox = <<>>
             /\ PollExpired(listeners[l])
             /\ listeners' = [listeners EXCEPT ![l].pc = LoopHead(stop_event),
                                               ![l].timer = 0]
    /\ UNCHANGED <<trust_cache_file, resets, histVars, peer, context, socks, clientVars, mainVars,
                   joinTimer, events, delivered, callVars>>

\* What lines 249-250 make of one message: "ok" is a two-part message with a
\* JSON payload; "parts" fails to unpack into topic and data_str, "badjson"
\* makes json.loads raise.  Neither exception is caught.
Decodes(form) == form = "ok"

RecvReady ==
    sub_socket # 0 /\ (~socks[sub_socket].open \/ context # "open"
                       \/ socks[sub_socket].inbox # <<>>)

\* Lines 249-253: self.sub_socket.recv_multipart() reads the socket the field
\* names now, and blocks while that socket has no message.
ListenerRecv(l) ==
    /\ l <= Len(listeners) /\ listeners[l].pc = "recv"
    /\ RecvReady
    /\ LET s == sub_socket
       IN IF ~socks[s].open
          THEN /\ listeners' = [listeners EXCEPT ![l].pc = "dead"]
               /\ UNCHANGED <<socks, delivered>>
          ELSE IF context # "open"
          THEN /\ listeners' = [listeners EXCEPT ![l].pc = "stopped"]
               /\ UNCHANGED <<socks, delivered>>
          ELSE LET m == Head(socks[s].inbox)
               IN /\ socks' = [socks EXCEPT ![s].inbox = Tail(@)]
                  /\ IF Decodes(m.form)
                     THEN /\ listeners' = [listeners EXCEPT ![l].pc = LoopHead(stop_event),
                                                        ![l].timer = 0]
                          /\ delivered' = Append(delivered, m.topic)
                     ELSE /\ listeners' = [listeners EXCEPT ![l].pc = "dead"]
                          /\ UNCHANGED delivered
    /\ UNCHANGED <<trust_cache_file, resets, histVars, peer, context, clientVars, mainVars, joinTimer,
                   events, callVars>>

\* ------------------------------------------------------------ the publisher
MessageForms == {"ok", "badjson", "parts"}

\* The server publishes one message: every open SUB socket whose filter holds
\* the topic queues it.
Publish ==
    /\ events < MaxEvents
    /\ events' = events + 1
    /\ \E t \in Topics, f \in MessageForms :
         socks' = [s \in 1..Len(socks) |->
                     IF socks[s].kind = "sub" /\ socks[s].open /\ socks[s].filter[t] > 0
                     THEN [socks[s] EXCEPT !.inbox = Append(@, [topic |-> t, form |-> f])]
                     ELSE socks[s]]
    /\ UNCHANGED <<trust_cache_file, resets, histVars, peer, context, clientVars, mainVars, listeners,
                   joinTimer, delivered, callVars>>

\* --------------------------------------------------------------------- time
\* A listener step that does not block is taken before time passes, and a
\* poll returns no later than its timeout.
Urgent(l) ==
    \/ l.pc = "recv" /\ RecvReady
    \/ l.pc = "poll" /\ (l.timer >= PollTicks \/ ~socks[l.sock].open
                         \/ context # "open" \/ socks[l.sock].inbox # <<>>)

\* One poll interval passes while close() waits in join().
TimePasses ==
    /\ mainPc = "close_join" /\ joinTimer < JoinTicks
    /\ \A l \in 1..Len(listeners) : ~Urgent(listeners[l])
    /\ listeners' = [l \in 1..Len(listeners) |->
                       IF listeners[l].pc = "poll"
                       THEN [listeners[l] EXCEPT !.timer = @ + 1]
                       ELSE listeners[l]]
    /\ joinTimer' = joinTimer + 1
    /\ UNCHANGED <<trust_cache_file, resets, histVars, peer, context, socks, clientVars, mainVars,
                   events, delivered, callVars>>

\* ------------------------------------------------------------ the request API
Ops == {"request", "subscribe", "unsubscribe"}

\* The symbol lists a call may pass: empty, one symbol, one symbol twice.
SymbolLists == {<<>>} \cup {<<s>> : s \in Symbols}
RepeatedLists == {<<s, s>> : s \in Symbols}

\* How many times the list names the symbol of topic t.
Count(t, syms) == Cardinality({i \in 1..Len(syms) : syms[i] = t})

\* Lines 398-400 and 404-405: the setsockopt calls on self.sub_socket.  A SUB
\* socket counts the filters set on it; UNSUBSCRIBE removes one instance.
SetFilter(f, op, syms) ==
    [t \in Topics |->
        IF op = "subscribe" THEN f[t] + Count(t, syms) + (IF t = HEARTBEAT THEN 1 ELSE 0)
        ELSE IF op = "unsubscribe" /\ f[t] > Count(t, syms) THEN f[t] - Count(t, syms)
        ELSE IF op = "unsubscribe" THEN 0
        ELSE f[t]]

\* The call reaches a setsockopt_string on self.sub_socket.
TouchesSub(op, syms) == op = "subscribe" \/ (op = "unsubscribe" /\ syms # <<>>)

\* Lines 274-279: the entry check of _send_request.
NotConnected(rs) == rs = 0

\* Lines 270-271: the clock in whole milliseconds, a hyphen and the four
\* digits of the random suffix; the text is written here as the number with
\* the same digits.
generate_python_id(now, suffix) == now * 10000 + suffix

\* The identifier of the specifications that do not look at identifiers.
FirstId == generate_python_id(1, SuffixLow)

\* The clock does not run backwards: the readings not earlier than the one in
\* any identifier stamped so far.
ClockReadings ==
    {t \in Times : \A d \in Callers : callers[d].python_id \div 10000 <= t}

\* A thread calls a request method, subscribe_symbols (397-401) or
\* unsubscribe_symbols (403-406), up to the entry of _send_request (273-281),
\* where the request gets pid as its python_id (line 281).
\* setsockopt on None raises AttributeError, on a closed socket ZMQError.
Call(c, op, syms, pid) ==
    /\ callers[c].pc \in {"idle", "done", "raised"} /\ calls < MaxCalls
    /\ calls' = calls + 1
    /\ LET me == [IdleCaller EXCEPT !.op = op, !.id = calls + 1,
                                    !.early = (listener_thread = 0)]
       IN IF TouchesSub(op, syms)
             /\ (sub_socket = 0 \/ ~socks[sub_socket].open \/ context # "open")
          THEN /\ callers' = [callers EXCEPT ![c] = [me EXCEPT !.pc = "raised"]]
               /\ UNCHANGED socks
          ELSE /\ socks' = IF TouchesSub(op, syms)
                           THEN [socks EXCEPT ![sub_socket].filter = SetFilter(@, op, syms)]
                           ELSE socks
               /\ callers' = [callers EXCEPT ![c] =
                                IF NotConnected(req_socket)
                                THEN [me EXCEPT !.pc = "done", !.result = ErrorResult(503)]
                                ELSE [me EXCEPT !.pc = "lock", !.python_id = pid]]
    /\ UNCHANGED <<trust_cache_file, resets, histVars, peer, context, clientVars, mainVars, listenVars,
                   wire, lastOutcome>>

\* A lock that never makes a caller wait.
AcquirableAlways(holder) == TRUE

\* Line 282, "with self.req_lock": the lock can be taken.
Acquirable(holder) == holder = 0

Acquire(c) ==
    /\ callers[c].pc = "lock"
    /\ Acquirable(req_lock)
    /\ req_lock' = c
    /\ callers' = [callers EXCEPT ![c].pc = "send"]
    /\ UNCHANGED <<trust_cache_file, resets, histVars, peer, context, socks, req_socket, sub_socket,
                   stop_event, listener_thread, server_public_key, cmd_endpoint,
                   mainVars, listenVars, wire, lastOutcome, calls>>

\* send_json on a REQ socket fails with ZMQError when the socket is closed, the
\* context is terminated, or the reply to the previous request was not received.
SendFails(sock) == ~sock.open \/ context # "open" \/ sock.awaiting

\* A send whose ZMQError is not caught: it escapes to the caller.
SendRaises(c) ==
    /\ callers[c].pc = "send"
    /\ LET s == req_socket
       IN IF SendFails(socks[s])
          THEN /\ callers' = [callers EXCEPT ![c].pc = "raised",
                                             ![c].prev = lastOutcome]
               /\ lastOutcome' = [kind |-> "error", sock |-> s]
               /\ req_lock' = 0
               /\ UNCHANGED <<socks, wire>>
          ELSE /\ socks' = [socks EXCEPT ![s].awaiting = TRUE]
               /\ wire' = wire \cup {[kind |-> "req", sock |-> s, id |-> callers[c].id,
                                      body |-> "none",
                                      data |-> IF callers[c].op = "history"
                                               THEN hist.request ELSE NoRequest]}
               /\ callers' = [callers EXCEPT ![c].pc = "poll", ![c].sock = s,
                                             ![c].sent = @ + 1,
                                             ![c].prev = lastOutcome]
               /\ UNCHANGED <<req_lock, lastOutcome>>
    /\ UNCHANGED <<trust_cache_file, resets, histVars, peer, context, req_socket, sub_socket, stop_event,
                   listener_thread, server_public_key, cmd_endpoint, mainVars,
                   listenVars, calls>>

\* Lines 284-287 (and 304-310 when send_json raises).
Send(c) ==
    /\ callers[c].pc = "send"
    /\ LET s == req_socket
       IN IF SendFails(socks[s])
          THEN /\ callers' = [callers EXCEPT ![c].pc = "done",
                                             ![c].result = ErrorResult(500),
                                             ![c].prev = lastOutcome]
               /\ lastOutcome' = [kind |-> "error", sock |-> s]
               /\ req_lock' = 0
               /\ UNCHANGED <<socks, wire>>
          ELSE /\ socks' = [socks EXCEPT ![s].awaiting = TRUE]
               /\ wire' = wire \cup {[kind |-> "req", sock |-> s, id |-> callers[c].id,
                                      body |-> "none",
                                      data |-> IF callers[c].op = "history"
                                               THEN hist.request ELSE NoRequest]}
               /\ callers' = [callers EXCEPT ![c].pc = "poll", ![c].sock = s,
                                             ![c].sent = @ + 1,
                                             ![c].prev = lastOutcome]
               /\ UNCHANGED <<req_lock, lastOutcome>>
    /\ UNCHANGED <<trust_cache_file, resets, histVars, peer, context, req_socket, sub_socket, stop_event,
                   listener_thread, server_public_key, cmd_endpoint, mainVars,
                   listenVars, calls>>

\* recv_json of line 289 decodes the reply; a body that is not JSON makes it
\* raise json.JSONDecodeError, which lines 304-310 do not catch.
Decodable(body) == body # "junk"

\* Lines 288-292: the poll on the registered socket reports a reply, and
\* self.req_socket.recv_json() takes it.
PollReply(c) ==
    /\ callers[c].pc = "poll"
    /\ context = "open" /\ socks[callers[c].sock].open
    /\ \E r \in wire :
        /\ r.kind = "rep" /\ r.sock = callers[c].sock
        /\ IF req_socket = callers[c].sock
           THEN /\ wire' = wire \ {r}
                /\ socks' = [socks EXCEPT ![r.sock].awaiting = FALSE]
                /\ IF Decodable(r.body)
                   THEN /\ callers' = [callers EXCEPT ![c].pc = "done",
                                                      ![c].result = ReplyResult(r)]
                        /\ lastOutcome' = [kind |-> "reply", sock |-> r.sock]
                   ELSE /\ callers' = [callers EXCEPT ![c].pc = "raised"]
                        /\ lastOutcome' = [kind |-> "raised", sock |-> r.sock]
           ELSE /\ callers' = [callers EXCEPT ![c].pc = "done",
                                              ![c].result = ErrorResult(500)]
                /\ lastOutcome' = [kind |-> "error", sock |-> req_socket]
                /\ UNCHANGED <<wire, socks>>
    /\ req_lock' = 0
    /\ UNCHANGED <<trust_cache_file, resets, histVars, peer, context, req_socket, sub_socket, stop_event,
                   listener_thread, server_public_key, cmd_endpoint, mainVars,
                   listenVars, calls>>

\* A reply that reaches a closed socket is discarded.
Arriving(w, ss) == {m \in w : m.kind = "req" \/ ss[m.sock].open}

\* A timeout path that returns without leaving the "with self.req_lock" block.
PollTimeoutKeepsLock(c) ==
    /\ callers[c].pc = "poll"
    /\ context = "open" /\ socks[callers[c].sock].open
    /\ LET r == ConnectReqSocket(socks, req_socket, server_public_key, cmd_endpoint)
       IN /\ socks' = r.socks
          /\ req_socket' = r.req_socket
          /\ wire' = Arriving(wire, r.socks)
    /\ callers' = [callers EXCEPT ![c].pc = "done", ![c].result = ErrorResult(408)]
    /\ lastOutcome' = [kind |-> "timeout", sock |-> callers[c].sock]
    /\ UNCHANGED <<trust_cache_file, resets, histVars, peer, context, sub_socket, stop_event,
                   listener_thread, req_lock, server_public_key, cmd_endpoint, mainVars,
                   listenVars, calls>>

\* Lines 293-303: the poll returns false after request_timeout; the socket is
\* replaced by _connect_req_socket and the timeout error is returned.
PollTimeout(c) ==
    /\ callers[c].pc = "poll"
    /\ context = "open" /\ socks[callers[c].sock].open
    /\ LET r == ConnectReqSocket(socks, req_socket, server_public_key, cmd_endpoint)
       IN /\ socks' = r.socks
          /\ req_socket' = r.req_socket
          /\ wire' = Arriving(wire, r.socks)
    /\ callers' = [callers EXCEPT ![c].pc = "done", ![c].result = ErrorResult(408)]
    /\ lastOutcome' = [kind |-> "timeout", sock |-> callers[c].sock]
    /\ req_lock' = 0
    /\ UNCHANGED <<trust_cache_file, resets, histVars, peer, context, sub_socket, stop_event,
                   listener_thread, server_public_key, cmd_endpoint, mainVars,
                   listenVars, calls>>

\* Lines 304-310: the poll raises ZMQError because the socket was closed or the
\* context terminated under it.
PollError(c) ==
    /\ callers[c].pc = "poll"
    /\ context # "open" \/ ~socks[callers[c].sock].open
    /\ callers' = [callers EXCEPT ![c].pc = "done", ![c].result = ErrorResult(500)]
    /\ lastOutcome' = [kind |-> "error", sock |-> callers[c].sock]
    /\ req_lock' = 0
    /\ UNCHANGED <<trust_cache_file, resets, histVars, peer, context, socks, req_socket, sub_socket,
                   stop_event, listener_thread, server_public_key, cmd_endpoint,
                   mainVars, listenVars, wire, calls>>

\* ---------------------------------------------------------------- the server
ReplyBodies == {"success", "error", "junk"}

\* The data of a reply: a success reply to get_bars carries the bars asked for
\* or an empty list, every other reply none.
ReplyData(m, b) ==
    IF b = "success" /\ m.data # NoRequest THEN {m.data, NoRequest} ELSE {NoRequest}

\* The server answers one request; the reply goes to the socket that sent it.
ServerReply ==
    /\ \E m \in wire, b \in ReplyBodies :
        /\ m.kind = "req"
        /\ \E d \in ReplyData(m, b) :
              wire' = Arriving((wire \ {m})
                                  \cup {[m EXCEPT !.kind = "rep", !.body = b, !.data = d]},
                               socks)
    /\ UNCHANGED <<trust_cache_file, resets, histVars, peer, context, socks, clientVars, mainVars,
                   listenVars, callers, lastOutcome, calls>>

\* ------------------------------------------------------------ specifications
InCall(c) == callers[c].pc \in {"lock", "send", "poll"}
Quiet == \A c \in Callers : ~InCall(c)

\* Every thread may take any step at any time.
Next ==
    \/ ConnectStart
    \/ ConnectHandshake
    \/ VerifyRead
    \/ VerifyDecide
    \/ ConnectOpenReq
    \/ ConnectOpenSub
    \/ ConnectStartListener
    \/ OperatorDeleteTrust
    \/ CloseStart
    \/ CloseJoin
    \/ CloseReq
    \/ CloseSub
    \/ CloseTerm
    \/ CloseReturn
    \/ \E l \in 1..MaxConnects : ListenerPoll(l) \/ ListenerRecv(l)
    \/ Publish
    \/ TimePasses
    \/ \E c \in Callers, op \in Ops, syms \in SymbolLists \cup RepeatedLists : Call(c, op, syms, FirstId)
    \/ \E c \in Callers : Acquire(c) \/ Send(c) \/ PollReply(c) \/ PollTimeout(c) \/ PollError(c)
    \/ ServerReply

Spec == Init /\ [][Next]_vars

\* connect() is called again and again by one thread, beside the operator.
NextTrust ==
    \/ ConnectStart
    \/ ConnectHandshake
    \/ VerifyRead
    \/ VerifyDecide
    \/ ConnectOpenReq
    \/ ConnectOpenSub
    \/ ConnectStartListener
    \/ OperatorDeleteTrust

SpecTrust == Init /\ [][NextTrust]_vars

\* One thread calls connect() and close() one after the other, beside the
\* listener threads, while time passes.
NextLifecycle ==
    \/ ConnectStart
    \/ ConnectHandshake
    \/ VerifyRead
    \/ VerifyDecide
    \/ ConnectOpenReq
    \/ ConnectOpenSub
    \/ ConnectStartListener
    \/ CloseStart
    \/ CloseJoin
    \/ CloseReq
    \/ CloseSub
    \/ CloseTerm
    \/ CloseReturn
    \/ \E l \in 1..MaxConnects : ListenerPoll(l)
    \/ TimePasses

SpecLifecycle == Init /\ [][NextLifecycle]_vars

\* No trust record exists yet.
InitFresh == Init /\ trust_cache_file = NoFile

\* connect() is called once, and the caller threads use the client at once, as
\* the stress suite does; a call may also come before connect().
NextWorkers ==
    \/ connects = 0 /\ ConnectStart
    \/ ConnectHandshake
    \/ VerifyRead
    \/ VerifyDecide
    \/ ConnectOpenReq
    \/ ConnectOpenSub
    \/ ConnectStartListener
    \/ mainPc = "idle" /\ \E c \in Callers, op \in Ops, syms \in SymbolLists :
                              Call(c, op, syms, FirstId)
    \/ \E c \in Callers : Acquire(c) \/ Send(c) \/ PollReply(c) \/ PollTimeout(c)
    \/ ServerReply

SpecWorkers == InitFresh /\ [][NextWorkers]_vars

\* connect() is called once; then one thread uses the request API while the
\* server publishes, one message after the other has been taken, and the
\* listener receives.
NextEvents ==
    \/ connects = 0 /\ ConnectStart
    \/ ConnectHandshake
    \/ VerifyRead
    \/ VerifyDecide
    \/ ConnectOpenReq
    \/ ConnectOpenSub
    \/ ConnectStartListener
    \/ connResult = "ok" /\ \E op \in Ops, syms \in SymbolLists : Call(1, op, syms, FirstId)
    \/ Acquire(1) \/ Send(1) \/ PollReply(1) \/ PollTimeout(1)
    \/ ServerReply
    \/ (\A s \in 1..Len(socks) : socks[s].inbox = <<>>) /\ Publish
    \/ \E l \in 1..MaxConnects : ListenerPoll(l) \/ ListenerRecv(l)

SpecEvents == InitFresh /\ [][NextEvents]_vars

\* connect() is called once; then one thread subscribes and unsubscribes, with
\* any of the symbol lists, while the server publishes and the listener receives.
NextSubscriptions ==
    \/ connects = 0 /\ ConnectStart
    \/ ConnectHandshake
    \/ VerifyRead
    \/ VerifyDecide
    \/ ConnectOpenReq
    \/ ConnectOpenSub
    \/ ConnectStartListener
    \/ connResult = "ok" /\ \E op \in {"subscribe", "unsubscribe"},
                               syms \in SymbolLists \cup RepeatedLists : Call(1, op, syms, FirstId)
    \/ Acquire(1) \/ Send(1) \/ PollReply(1) \/ PollTimeout(1)
    \/ ServerReply
    \/ (\A s \in 1..Len(socks) : socks[s].inbox = <<>>) /\ Publish
    \/ \E l \in 1..MaxConnects : ListenerPoll(l) \/ ListenerRecv(l)

SpecSubscriptions == InitFresh /\ [][NextSubscriptions]_vars

\* connect() is called once; then the caller threads send plain requests.
NextCalls ==
    \/ connects = 0 /\ ConnectStart
    \/ ConnectHandshake
    \/ VerifyRead
    \/ VerifyDecide
    \/ ConnectOpenReq
    \/ ConnectOpenSub
    \/ ConnectStartListener
    \/ connResult = "ok" /\ \E c \in Callers : Call(c, "request", <<>>, FirstId)
    \/ \E c \in Callers : Acquire(c) \/ Send(c) \/ PollReply(c) \/ PollTimeout(c)
    \/ ServerReply

\* Every caller thread keeps running, its poll returns with a reply or after
\* request_timeout, and the lock is fair: a thread that waits for it while it
\* is released again and again gets it.
FairCalls ==
    \A c \in Callers :
        /\ SF_vars(Acquire(c))
        /\ WF_vars(Send(c))
        /\ WF_vars(PollReply(c) \/ PollTimeout(c))

SpecCallsFair == InitFresh /\ [][NextCalls]_vars /\ FairCalls

\* connect() is called once; then the caller threads send plain requests, each
\* stamped from the clock reading and the random draw of its moment.
NextIds ==
    \/ connects = 0 /\ ConnectStart
    \/ ConnectHandshake
    \/ VerifyRead
    \/ VerifyDecide
    \/ ConnectOpenReq
    \/ ConnectOpenSub
    \/ ConnectStartListener
    \/ connResult = "ok"
       /\ \E c \in Callers, now \in ClockReadings, suffix \in Suffixes :
              Call(c, "request", <<>>, generate_python_id(now, suffix))
    \/ \E c \in Callers : Acquire(c) \/ Send(c) \/ PollReply(c) \/ PollTimeout(c)
    \/ ServerReply

SpecIds == InitFresh /\ [][NextIds]_vars

\* connect() has returned normally and close() has not been called since.
SessionUp == mainPc = "idle" /\ connResult = "ok" /\ ~stop_event

\* One thread calls connect(), subscribe_symbols and close() one after the
\* other, while the server publishes and the listener threads run.
NextShutdown ==
    \/ closes = 0 /\ Quiet /\ ConnectStart
    \/ ConnectHandshake
    \/ VerifyRead
    \/ VerifyDecide
    \/ ConnectOpenReq
    \/ ConnectOpenSub
    \/ ConnectStartListener
    \/ calls = 0 /\ SessionUp /\ \E syms \in SymbolLists : Call(1, "subscribe", syms, FirstId)
    \/ Acquire(1) \/ Send(1) \/ PollReply(1) \/ PollTimeout(1)
    \/ ServerReply
    \/ (\A s \in 1..Len(socks) : socks[s].inbox = <<>>) /\ Publish
    \/ \E l \in 1..MaxConnects : ListenerPoll(l) \/ ListenerRecv(l)
    \/ closes = 0 /\ Quiet /\ CloseStart
    \/ CloseJoin
    \/ CloseReq
    \/ CloseSub
    \/ CloseTerm
    \/ CloseReturn
    \/ TimePasses

SpecShutdown == InitFresh /\ [][NextShutdown]_vars

\* connect() is called once and close() once, at any moment, while the caller
\* threads send plain requests; connect() may be tried again after close().
NextCloseRace ==
    \/ (connects = 0 \/ closeResult = "returned") /\ ConnectStart
    \/ ConnectHandshake
    \/ VerifyRead
    \/ VerifyDecide
    \/ ConnectOpenReq
    \/ ConnectOpenSub
    \/ ConnectStartListener
    \/ \E c \in Callers : Call(c, "request", <<>>, FirstId)
    \/ \E c \in Callers : Acquire(c) \/ Send(c) \/ PollReply(c) \/ PollTimeout(c) \/ PollError(c)
    \/ ServerReply
    \/ closes = 0 /\ CloseStart
    \/ CloseJoin
    \/ CloseReq
    \/ CloseSub
    \/ CloseTerm
    \/ CloseReturn
    \/ \E l \in 1..MaxConnects : ListenerPoll(l)
    \/ TimePasses

SpecCloseRace == InitFresh /\ [][NextCloseRace]_vars

\* connect() and close() are called once each; one thread sends plain requests
\* at any moment, another one after close() has returned, and connect() may
\* be tried again then.
NextClosed ==
    \/ (connects = 0 \/ closeResult = "returned") /\ ConnectStart
    \/ ConnectHandshake
    \/ VerifyRead
    \/ VerifyDecide
    \/ ConnectOpenReq
    \/ ConnectOpenSub
    \/ ConnectStartListener
    \/ Call(1, "request", <<>>, FirstId)
    \/ closeResult = "returned" /\ Call(2, "request", <<>>, FirstId)
    \/ \E c \in Callers : Acquire(c) \/ Send(c) \/ PollReply(c) \/ PollTimeout(c) \/ PollError(c)
    \/ ServerReply
    \/ closes = 0 /\ CloseStart
    \/ CloseJoin
    \/ CloseReq
    \/ CloseSub
    \/ CloseTerm
    \/ CloseReturn
    \/ \E l \in 1..MaxConnects : ListenerPoll(l)
    \/ TimePasses

SpecClosed == InitFresh /\ [][NextClosed]_vars

\* Two clients that share the trust record file call connect() once each,
\* in any interleaving.
NextSharedTrust ==
    \/ connects = 0 /\ ConnectStart
    \/ ConnectHandshake
    \/ VerifyRead
    \/ VerifyDecide
    \/ ConnectOpenReq
    \/ ConnectOpenSub
    \/ ConnectStartListener
    \/ PeerHandshake
    \/ PeerVerifyRead
    \/ PeerVerifyDecide

SpecSharedTrust == InitFresh /\ [][NextSharedTrust]_vars

\* connect() is called once; then thread 1 calls get_historical_data, one call
\* after the other, with any arguments, while requests may still be sent.
NextHistory ==
    \/ connects = 0 /\ ConnectStart
    \/ ConnectHandshake
    \/ VerifyRead
    \/ VerifyDecide
    \/ ConnectOpenReq
    \/ ConnectOpenSub
    \/ ConnectStartListener
    \/ mainPc = "idle" /\ connects > 0 /\ calls < MaxCalls
                        /\ \E a \in HistArgs : HistoryStart(a)
    \/ hist.pc = "request" /\ callers[1].id # hist.ticket
                           /\ Call(1, "history", <<>>, FirstId)
    \/ Acquire(1) \/ Send(1) \/ PollReply(1) \/ PollTimeout(1)
    \/ ServerReply
    \/ HistoryFinish

SpecHistory == InitFresh /\ [][NextHistory]_vars

\* The same with the calls of one symbol without end time and count, so that
\* more calls can be followed.
NextHistoryCalls ==
    \/ connects = 0 /\ ConnectStart
    \/ ConnectHandshake
    \/ VerifyRead
    \/ VerifyDecide
    \/ ConnectOpenReq
    \/ ConnectOpenSub
    \/ ConnectStartListener
    \/ mainPc = "idle" /\ connects > 0 /\ calls < MaxCalls
                        /\ \E a \in HistArgs :
                              /\ a.symbol = "EURUSD" /\ a.end_time = None /\ a.count = 0
                              /\ HistoryStart(a)
    \/ hist.pc = "request" /\ callers[1].id # hist.ticket
                           /\ Call(1, "history", <<>>, FirstId)
    \/ Acquire(1) \/ Send(1) \/ PollReply(1) \/ PollTimeout(1)
    \/ ServerReply
    \/ HistoryFinish

SpecHistoryCalls == InitFresh /\ [][NextHistoryCalls]_vars

\* ==================================================================== claims
\* What connect() has created since it began: nothing but its handshake socket.
NothingCreated ==
    /\ req_socket = preConn.req /\ sub_socket = preConn.sub
    /\ listener_thread = preConn.lt
    /\ Len(listeners) = preConn.nlisteners
    /\ \A s \in (preConn.nsocks + 1)..Len(socks) : socks[s].kind = "hs"

\* C1: when verification has read a non-empty trusted key and the handshake
\* reply carries a different key, the step connect() takes next raises, and
\* that connect() has created no command socket, no subscribe socket and no
\* listener thread.
C1_MismatchAborts ==
    [][(mainPc = "verify_decide" /\ mainPc' # "verify_decide"
        /\ trusted_key # 0 /\ response.key # trusted_key)
       => (mainPc' = "idle" /\ connResult' = "raised" /\ connError' = "mismatch"
           /\ NothingCreated')]_vars

C1_Witness == connResult = "raised" /\ connError = "mismatch"

\* The key the trust record holds (0: no record, or a record without a key).
StoredKey(file) == IF file.kind = "record" THEN file.key ELSE 0

\* C2 as claimed: once the record holds a key K, only the operator's step
\* changes the stored key.
C2_OnlyOperatorChangesKey ==
    [][(StoredKey(trust_cache_file) # 0
        /\ StoredKey(trust_cache_file') # StoredKey(trust_cache_file))
       => resets' = resets + 1]_vars

\* C2 as amended: once the record holds a non-empty key K, the stored key
\* changes only by the operator's step or in a verification whose read of the
\* record failed (trusted_key is None although the record holds a key).
C2_KeyStaysWhileReadable ==
    [][(StoredKey(trust_cache_file) # 0
        /\ StoredKey(trust_cache_file') # StoredKey(trust_cache_file))
       => (resets' = resets + 1 \/ (mainPc = "verify_decide" /\ trusted_key = 0))]_vars

C2_Witness ==
    /\ connResult = "ok" /\ trust_cache_file.kind = "record"
    /\ trust_cache_file.key = server_public_key
    /\ trust_cache_file.stamp > 0 /\ trust_cache_file.stamp < connects

\* The reasons for which connect() raises that C7 lists.
ListedFailures == {"timeout", "undecodable", "error", "nokey", "mismatch", "ports"}
ConnectFailed == mainPc = "idle" /\ connResult = "raised" /\ connError \in ListedFailures

C3_ReplyIsOwn ==
    \A c \in Callers :
        callers[c].result.kind = "reply" => callers[c].result.for = callers[c].id

C3_Witness ==
    \E c, d \in Callers :
        /\ c # d
        /\ callers[d].result.code = 408
        /\ callers[c].prev = [kind |-> "timeout", sock |-> callers[d].sock]
        /\ callers[c].result.kind = "reply"

\* C4: a caller between taking the lock and returning holds the lock, so no
\* other caller is there; and the command socket carries at most one message.
C4_OneInFlight ==
    /\ \A c \in Callers : callers[c].pc \in {"send", "poll"} => req_lock = c
    /\ \A c \in Callers : (callers[c].pc = "poll" /\ callers[c].sock = req_socket)
                            <=> (req_lock = c /\ socks[req_socket].awaiting)
    /\ Cardinality({m \in wire : m.sock = req_socket}) <= 1

C4_Witness ==
    \E c, d \in Callers : callers[c].pc = "poll" /\ callers[d].pc = "lock"

\* C5: a caller that leaves its poll with an error result leaves with code 408,
\* its request sent once, the lock free, the socket it sent on closed, and
\* req_socket naming a socket created in that step: open, idle, with no message
\* on it, and with the endpoint and the server key of the old one.
C5_TimeoutReplacesSocket ==
    [][\A c \in Callers :
          (callers[c].pc = "poll" /\ callers'[c].pc = "done"
           /\ callers'[c].result.kind = "error")
          => LET old == callers[c].sock
                 new == req_socket'
             IN /\ callers'[c].result.code = 408
                /\ callers'[c].sent = 1
                /\ req_lock' = 0
                /\ ~socks'[old].open
                /\ new = Len(socks) + 1 /\ Len(socks') = new
                /\ socks'[new].kind = "req" /\ socks'[new].open /\ ~socks'[new].awaiting
                /\ socks'[new].endpoint = socks[old].endpoint
                /\ socks'[new].key = socks[old].key
                /\ \A m \in wire' : m.sock # new]_vars

C5_Witness ==
    \E c \in Callers : callers[c].result.code = 408 /\ socks[req_socket].open

\* C6: the request sent next after a timeout goes out on a socket created
\* after the one that timed out; it never ends in a transport error, and a
\* reply it receives is the server's answer to it.
C6_NextRequestHeals ==
    \A c \in Callers :
        (callers[c].prev.kind = "timeout" /\ callers[c].pc \in {"poll", "done", "raised"})
        => /\ callers[c].sent = 1
           /\ callers[c].sock > callers[c].prev.sock
           /\ callers[c].result.code # 500
           /\ callers[c].result.kind = "reply" => callers[c].result.for = callers[c].id

C6_Witness ==
    \E c \in Callers :
        /\ callers[c].prev.kind = "timeout"
        /\ callers[c].result.kind = "reply" /\ callers[c].result.status = "success"

\* C8: a call made before any connect() has completed ends with the
\* NotConnected result (code 503).
C8_EarlyCallNotConnected ==
    \A c \in Callers :
        (callers[c].early /\ callers[c].pc # "idle")
        => (callers[c].pc = "done" /\ callers[c].result.code = 503)

\* C9: no call that has sent its request ends by raising.
C9_NoExceptionEscapes ==
    \A c \in Callers : callers[c].sent > 0 => callers[c].pc # "raised"

\* C10: no listener thread is in its loop while the socket it polls is closed
\* or the context is being terminated, and close() has not returned while one is.
C10_ListenerStopsFirst ==
    /\ \A l \in 1..Len(listeners) :
          Running(listeners[l]) => (socks[listeners[l].sock].open /\ context = "open")
    /\ closeResult = "returned" => \A l \in 1..Len(listeners) : ~Running(listeners[l])

\* The positions of close(), and the client state a close() can touch.
ClosePcs == {"close_join", "close_req", "close_sub", "close_term", "close_wait"}
ClientState ==
    <<trust_cache_file, context, socks, clientVars,
      [l \in 1..Len(listeners) |-> listeners[l].pc]>>

\* C11: on a client whose close() has returned (the context is terminated),
\* every step of a further close() leaves the client state as it is and leads
\* to the next position of close() or to its return, and its wait in term()
\* finds every socket closed, so it does not block.
C11_SecondCloseNoOp ==
    /\ [](context = "terminated" /\ mainPc = "close_wait"
          => \A s \in 1..Len(socks) : ~socks[s].open)
    /\ [][(context = "terminated" /\ mainPc' # mainPc
           /\ (mainPc \in ClosePcs \/ mainPc' \in ClosePcs))
          => /\ ClientState' = ClientState
             /\ mainPc' \in ClosePcs \/ (mainPc' = "idle" /\ closeResult' = "returned")]_vars

C11_Witness ==
    closes = 2 /\ mainPc = "idle" /\ closeResult = "returned" /\ connResult = "ok"

\* C12: while the stop signal is not set and the socket it polls is usable,
\* every listener thread is still in its loop, whatever messages have arrived.
C12_ListenerSurvivesMessages ==
    \A l \in 1..Len(listeners) :
        (~stop_event /\ context = "open" /\ socks[listeners[l].sock].open)
        => Running(listeners[l])

\* The subscribe side of the client: the field, the SUB sockets with their
\* filters and queues, the listener threads and the stop signal.
SubSockets(ss) == [s \in {i \in 1..Len(ss) : ss[i].kind = "sub"} |-> ss[s]]
SubSide == <<sub_socket, SubSockets(socks), listeners, stop_event>>

\* A call ends in this step with an error result of the command channel.
CommandFailure(c) ==
    /\ callers[c].pc \in {"send", "poll"}
    /\ callers'[c].pc = "done" /\ callers'[c].result.kind = "error"

\* C13: a step in which a request fails on the command channel leaves the
\* subscribe side unchanged; and with a listener that has left its loop no
\* request ends in a transport error, and a caller waiting for req_lock waits
\* only for another caller's exchange.
C13_ChannelsIndependent ==
    /\ [][(\E c \in Callers : CommandFailure(c)) => SubSide' = SubSide]_vars
    /\ [](\A c \in Callers :
            (\E l \in 1..Len(listeners) : ~Running(listeners[l]))
            => /\ callers[c].result.code # 500
               /\ callers[c].pc = "lock"
                    => (req_lock = 0 \/ (req_lock \in Callers \ {c} /\ InCall(req_lock))))

C13_Witness ==
    /\ \E l \in 1..Len(listeners) : listeners[l].pc = "dead"
    /\ socks[sub_socket].open /\ socks[sub_socket].filter[HEARTBEAT] > 0
    /\ callers[1].prev.kind = "timeout" /\ callers[1].result.kind = "reply"

\* connect() takes the deciding step of verification.
Decides == mainPc = "verify_decide" /\ mainPc' # mainPc

\* C14 as claimed: on first use the received key is accepted and a record
\* holding exactly that key is persisted.
C14_FirstUsePersists ==
    [][(Decides /\ trusted_key = 0 /\ trust_cache_file = NoFile)
       => /\ mainPc' = "open_req" /\ server_public_key' = response.key
          /\ trust_cache_file' = TrustRecord(response.key, connects)]_vars

\* C14 as amended: on first use the received key is accepted, and the record
\* holds exactly that key unless the write failed, which leaves no record; and a
\* later connect() that reads a record this client persisted and receives a
\* different key is rejected.
C14_FirstUsePersistsUnlessWriteFails ==
    /\ [][(Decides /\ trusted_key = 0 /\ trust_cache_file = NoFile)
          => /\ mainPc' = "open_req" /\ server_public_key' = response.key
             /\ trust_cache_file' \in {TrustRecord(response.key, connects), NoFile,
                                       CorruptFile}]_vars
    /\ [][(Decides /\ trust_cache_file.stamp > 0 /\ trusted_key = trust_cache_file.key
           /\ response.key # trusted_key)
          => (connResult' = "raised" /\ connError' = "mismatch"
              /\ trust_cache_file' = trust_cache_file)]_vars

C14_Witness ==
    /\ connResult = "raised" /\ connError = "mismatch"
    /\ trust_cache_file.kind = "record" /\ trust_cache_file.stamp > 0
    /\ trust_cache_file.stamp < connects

\* C15: when verification has read the key of the existing record and the
\* received key equals it, the key is accepted and the record file is left
\* exactly as it is.
C15_EqualKeyNoWrite ==
    [][(Decides /\ trusted_key # 0 /\ response.key = trusted_key)
       => /\ mainPc' = "open_req" /\ connResult' = "none"
          /\ server_public_key' = response.key
          /\ trust_cache_file' = trust_cache_file]_vars

C15_Witness ==
    /\ connResult = "ok" /\ resets = 0
    /\ trust_cache_file = TrustRecord(server_public_key, 0)

\* The record file exists, and verification has no trusted key from it: the
\* read failed, the file does not parse, or it holds no server_public_key.
Unreadable == trust_cache_file # NoFile /\ trusted_key = 0

\* C16 as claimed: an unreadable record is treated as absent: the received key
\* is accepted and the record is overwritten with it.
C16_UnreadableOverwritten ==
    [][(Decides /\ Unreadable)
       => /\ mainPc' = "open_req" /\ server_public_key' = response.key
          /\ trust_cache_file' = TrustRecord(response.key, connects)]_vars

\* C16 as amended: an unreadable record is treated as absent: the received key
\* is accepted, and the record is overwritten with it unless the write fails
\* too, which leaves the file as it was or truncated.
C16_UnreadableOverwrittenUnlessWriteFails ==
    [][(Decides /\ Unreadable)
       => /\ mainPc' = "open_req" /\ server_public_key' = response.key
          /\ trust_cache_file' \in {TrustRecord(response.key, connects),
                                    trust_cache_file, CorruptFile}]_vars

C16_Witness ==
    /\ connResult = "ok" /\ resets = 0
    /\ preConn.file \in {CorruptFile} \cup {TrustRecord(k, 0) : k \in (Keys \cup {0}) \ {server_public_key}}
    /\ trust_cache_file = TrustRecord(server_public_key, connects)

\* connect() has returned normally with both channels open under the session
\* key and the listener started.
Connected ==
    /\ req_socket > preConn.nsocks /\ sub_socket > preConn.nsocks
    /\ socks[req_socket].kind = "req" /\ socks[req_socket].open
    /\ socks[req_socket].key = server_public_key
    /\ socks[sub_socket].kind = "sub" /\ socks[sub_socket].open
    /\ socks[sub_socket].key = server_public_key
    /\ listener_thread = Len(listeners) /\ listener_thread > preConn.nlisteners

\* C17: a first-use verification whose write of the record fails raises
\* nothing: the received key becomes the session key, connect() goes on to
\* open its channels, and the file is left as it was or truncated, so a store
\* that had no record has none for that key; and a connect() that returns
\* normally has opened both channels under the session key.
C17_WriteFailureNotFatal ==
    /\ [][(Decides /\ trusted_key = 0
           /\ trust_cache_file' # TrustRecord(response.key, connects))
          => /\ mainPc' = "open_req" /\ connResult' = "none" /\ connError' = "none"
             /\ server_public_key' = response.key
             /\ trust_cache_file' \in {trust_cache_file, CorruptFile}
             /\ trust_cache_file = NoFile => StoredKey(trust_cache_file') # response.key]_vars
    /\ []((mainPc = "idle" /\ connResult = "ok") => Connected)

C17_Witness ==
    /\ mainPc = "idle" /\ connResult = "ok" /\ resets = 0
    /\ preConn.file = NoFile /\ trust_cache_file \in {NoFile, CorruptFile}
    /\ socks[req_socket].key = server_public_key

\* The sockets configured with CURVE keys.
Encrypted(sock) == sock.kind \in {"req", "sub"}

\* C18: the session key changes only in a deciding step of verification that
\* does not reject, and becomes the key that step accepted; a socket created
\* encrypted is created by connect() after that step, with the session key;
\* and while connect() is at its handshake or in verification it has created
\* no encrypted socket.
C18_VerifiedBeforeEncrypted ==
    /\ [][server_public_key' # server_public_key
          => /\ Decides /\ Verdict(trusted_key, response.key) # "rejected"
             /\ server_public_key' = response.key]_vars
    /\ [][\A s \in (Len(socks) + 1)..Len(socks') :
            Encrypted(socks'[s])
            => /\ mainPc \in {"open_req", "open_sub"}
               /\ server_public_key = response.key
               /\ Verdict(trusted_key, response.key) # "rejected"
               /\ socks'[s].key = server_public_key]_vars
    /\ [](mainPc \in {"handshake", "verify_read", "verify_decide"}
          => \A s \in (preConn.nsocks + 1)..Len(socks) : ~Encrypted(socks[s]))

C18_Witness ==
    /\ mainPc = "idle" /\ connResult = "ok"
    /\ socks[req_socket].key = server_public_key
    /\ socks[sub_socket].key = server_public_key
    /\ \E s \in 1..Len(socks) : Encrypted(socks[s]) /\ socks[s].key # server_public_key

\* C19: when connect() is not running, no handshake socket is open.
C19_HandshakeSocketClosed ==
    mainPc \in {"idle"} \cup ClosePcs
    => \A s \in 1..Len(socks) : socks[s].kind = "hs" => ~socks[s].open

\* The handshake sockets the running or last connect() has created.
HandshakeSockets == {s \in (preConn.nsocks + 1)..Len(socks) : socks[s].kind = "hs"}

\* C20: a connect() that reached its handshake has created one handshake
\* socket and sent one request on it, from then on and after it has ended; and
\* the step it takes from its poll sends nothing: it goes on to verification
\* with the reply, or raises the timeout, the parse error or the rejection.
C20_OneHandshakeRequest ==
    /\ [](connects > 0 /\ connError # "context"
          => hsSent = 1 /\ Cardinality(HandshakeSockets) = 1)
    /\ [][(mainPc = "handshake" /\ mainPc' # mainPc)
          => /\ hsSent' = hsSent
             /\ \/ mainPc' = "verify_read" /\ response'.status = "success"
                \/ /\ mainPc' = "idle" /\ connResult' = "raised"
                   /\ connError' \in {"timeout", "undecodable", "error"}]_vars
    /\ [][(mainPc = "handshake" /\ mainPc' = "handshake") => hsSent' = hsSent]_vars

C20_Witness ==
    mainPc = "idle" /\ connResult = "raised" /\ connError = "timeout" /\ hsSent = 1

\* C21: while the session is connected, the filter of the subscribe socket
\* holds HEARTBEAT.
C21_HeartbeatAlwaysSubscribed ==
    (SessionUp /\ socks[sub_socket].open) => socks[sub_socket].filter[HEARTBEAT] > 0

\* The listener threads that are in their loop.
RunningListeners == {l \in 1..Len(listeners) : Running(listeners[l])}

\* C23: at most one listener thread is running, and exactly one while the
\* session is connected.
C23_OneListener ==
    /\ Cardinality(RunningListeners) <= 1
    /\ SessionUp => Cardinality(RunningListeners) = 1

\* C24: every result a call has returned carries end_to_end_duration_ms.
C24_EveryResultHasDuration ==
    \A c \in Callers : callers[c].pc = "done" => callers[c].result.duration

\* C27: connect() is at its handshake only on a client that had no command
\* socket, no subscribe socket and no listener when the call began.
C27_LifecycleForward ==
    mainPc = "handshake" => (preConn.req = 0 /\ preConn.sub = 0 /\ preConn.lt = 0)

\* The command socket the last connect() opened.
HandshakeReq == preConn.nsocks + 2

\* C28: once connect() has returned normally, no step changes the server key
\* or the command endpoint; the command socket in use, re-dialled or not, has
\* the key and the endpoint of the command socket connect() opened, which are
\* the values the client holds.
C28_SessionParametersFixed ==
    /\ [][connResult = "ok"
          => (server_public_key' = server_public_key /\ cmd_endpoint' = cmd_endpoint)]_vars
    /\ [](connResult = "ok"
          => /\ socks[HandshakeReq].kind = "req"
             /\ socks[req_socket].key = socks[HandshakeReq].key
             /\ socks[req_socket].endpoint = socks[HandshakeReq].endpoint
             /\ socks[req_socket].key = server_public_key
             /\ socks[req_socket].endpoint = cmd_endpoint)

C28_Witness ==
    /\ connResult = "ok" /\ req_socket > HandshakeReq + 1
    /\ socks[req_socket].open /\ lastOutcome.kind = "timeout"

\* C30: no step changes the filter of a subscribe socket while a listener
\* thread is in its loop on that socket.
C30_FilterOwnedByListener ==
    [][\A s \in 1..Len(socks) :
          socks'[s].filter # socks[s].filter
          => \A l \in 1..Len(listeners) :
                ~(Running(listeners[l]) /\ listeners[l].sock = s)]_vars

\* C22: a step that unsubscribes a symbol leaves its topic out of the filter
\* of the subscribe socket, so that Publish queues no further message on it.
C22_UnsubscribeStopsDelivery ==
    [][\A t \in Symbols :
          (sub_socket # 0 /\ socks'[sub_socket].filter[t] < socks[sub_socket].filter[t])
          => socks'[sub_socket].filter[t] = 0]_vars

\* C25: the lock is held only by a caller inside its exchange, a call sends
\* its request at most once, and every call that has entered _send_request on
\* the connected client eventually leaves it.
C25_EveryCallReturns ==
    /\ [](\A c \in Callers :
            /\ req_lock = c => callers[c].pc \in {"send", "poll"}
            /\ callers[c].sent <= 1)
    /\ \A c \in Callers : InCall(c) ~> ~InCall(c)

C25_Witness ==
    \E c, d \in Callers :
        /\ c # d /\ callers[c].pc = "done" /\ callers[d].pc = "done"
        /\ callers[c].result.code = 408 /\ callers[d].result.code = 408
        /\ callers[d].prev.kind = "timeout"

\* C26: once the stop signal is set, a listener thread in its loop is in a
\* poll that has lasted no longer than one interval or in a receive that does
\* not block, so that it comes to the head of its loop, and leaves it, within
\* one poll cycle and after at most one message.
C26_ListenerHeedsStop ==
    \A l \in 1..Len(listeners) :
        stop_event
        => /\ listeners[l].pc = "poll" => listeners[l].timer <= PollTicks
           /\ listeners[l].pc = "recv" => RecvReady

\* C29: two requests of a session that have been stamped carry different
\* request identifiers, also when two threads stamp theirs in one millisecond.
C29_IdentifiersDiffer ==
    \A c, d \in Callers :
        (c # d /\ callers[c].python_id # 0 /\ callers[d].python_id # 0)
        => callers[c].python_id # callers[d].python_id

\* _send_request returns to caller c in this step with a reply, a timeout error
\* or a transport error (the 503 result is returned before the channel is used).
Returns(c) == InCall(c) /\ callers'[c].pc = "done"

\* C31: whenever _send_request returns with a reply, a timeout error or a
\* transport error, the command socket of the client is open and not awaiting
\* a reply, so that it accepts a new send.
C31_SocketIdleOnReturn ==
    [][\A c \in Callers :
          Returns(c) => /\ socks'[req_socket'].open
                        /\ ~socks'[req_socket'].awaiting]_vars

\* close() executes lines 263-264 in this step.
ClosesCommandSocket == mainPc = "close_req" /\ mainPc' = "close_sub"

\* C34: close() does not close the command socket while a caller has sent a
\* request on it and has not yet received the reply or timed out.
C34_NoCloseInFlight ==
    [][ClosesCommandSocket
       => ~\E c \in Callers : callers[c].pc = "poll" /\ callers[c].sock = req_socket]_vars

\* connect() raises in this step.
ConnectFails == mainPc # "idle" /\ mainPc' = "idle" /\ connResult' = "raised"

\* C32: when connect() fails, for whatever reason, the trust record file is
\* what it was when the call began (the operator not having touched it).
C32_FailedConnectKeepsTrust ==
    [][(ConnectFails /\ resets' = 0) => trust_cache_file' = preConn.file]_vars

\* close() is inside self.context.term() (line 267).
InTerm == mainPc = "close_wait"

\* C33: when close() reaches context.term(), every socket created on the
\* context (handshake, command and subscribe sockets, replaced ones included)
\* has been closed, so that term() returns.
C33_AllSocketsClosedAtTerm ==
    InTerm => \A s \in 1..Len(socks) : ~socks[s].open

\* C35: when the second client reads the record while the first is in its
\* first-use verification, and the two have received different keys, the two
\* sessions are not both established.
C35_AtMostOneAccepted ==
    ~(/\ peer.overlap /\ peer.pc = "ok" /\ connResult = "ok"
      /\ peer.server_public_key # server_public_key)

\* The first call on the connected client has returned an error result.
FirstCallFailed ==
    calls = 1 /\ callers[1].pc = "done" /\ callers[1].result.status = "error"

\* C36: when subscribe_symbols or unsubscribe_symbols returns an error result
\* (timeout, transport error or error status of the server), the topic filter
\* is what it was before the call; for the first call on a connected client
\* that is the empty filter of the new subscribe socket.
C36_FilterKeptOnError ==
    (FirstCallFailed /\ callers[1].op \in {"subscribe", "unsubscribe"})
    => socks[sub_socket].filter = [t \in Topics |-> 0]

\* C37: after close() has returned, a request call (those of thread 2 are all
\* made then) does not raise, transmits nothing, returns an error result, and
\* waits for the lock only behind a call that is about to fail.
C37_ClosedClientRefuses ==
    closeResult = "returned"
    => /\ callers[2].pc \notin {"poll", "raised"}
       /\ callers[2].sent = 0
       /\ callers[2].pc = "done" => callers[2].result.kind = "error"
       /\ (callers[2].pc = "lock" /\ req_lock # 0)
          => /\ req_lock = 1 /\ callers[1].pc \in {"send", "poll"}
             /\ context # "open"

C37_Witness ==
    /\ closeResult = "returned" /\ connResult = "ok"
    /\ callers[2].pc = "done" /\ callers[2].result.code = 500

\* C38: a call that is served from the cache gets the bars of the request it
\* would have sent itself: same symbol, timeframe, start, end and count.
C38_CacheHitSameData ==
    (hist.pc = "returned" /\ hist.hit) => hist.table = BuildRequest(hist.args)

\* The call of get_historical_data has returned after a response without bars:
\* an error result, an error status or an empty data list.
ReturnedWithoutBars ==
    /\ hist.pc = "returned" /\ ~hist.hit
    /\ ~HasBars(callers[1].result)

\* C39: a call whose response is an error result or carries no data leaves
\* every cache file as it was and returns an empty table.
C39_NoBarsNoCache ==
    ReturnedWithoutBars => (history_cache = hist.before /\ hist.table = NoRequest)

C39_Witness ==
    /\ ReturnedWithoutBars /\ callers[1].result.code = 408
    /\ hist.before # NoFiles

====
